---- MODULE Spec2Model ----
(***************************************************************************)
(* Model of the crawl orchestration engine of crawler/crawler.go: the      *)
(* Crawl controller, the admission routine enqueue, the worker pool with   *)
(* per-URL processing, and the idle monitor.  Every goroutine is a process *)
(* <<c, i>>: <<c, 0>> is the goroutine running the c-th Crawl call, and    *)
(* <<c, i>> with i > 0 is the i-th worker that call started.  The idle     *)
(* monitor of call c has its own position mon[c].  A step of the model is  *)
(* one access to shared state (a channel operation, an atomic counter, the *)
(* sync.Map, the running flag, a context) together with the local          *)
(* computation that follows it.  A panic ends the process: no goroutine    *)
(* takes a step once panicked holds.                                       *)
(*                                                                         *)
(* Left out, because they touch no state another goroutine reads: the      *)
(* progress reporter (it only reads the counters), the sleep of            *)
(* requestDelay, the parser (its error only travels in the Result), the    *)
(* cache write, and the logging.  c.running is read and written without    *)
(* synchronization; the read and the write are separate steps, so every    *)
(* order of them between two calls is a behaviour of the model.            *)
(***************************************************************************)
EXTENDS Integers, Sequences, FiniteSets, TLC

(***************************************************************************)
(* Bounds of the model.                                                    *)
(***************************************************************************)
MaxCalls == 2
MaxWorkers == 2

Calls == 1..MaxCalls
Procs == Calls \X (0..MaxWorkers)

(***************************************************************************)
(* URLs.  A URL string is a record: host, path and the textual form it is  *)
(* written in.  "canon" is the normalized form, "slash" has a trailing     *)
(* slash, "upper" differs from the normalized form in letter case, "rel"   *)
(* is a relative reference (no scheme, no host), "bad" does not parse or   *)
(* has a scheme other than http(s).                                        *)
(***************************************************************************)
Url(h, p, f) == [host |-> h, path |-> p, form |-> f]
NoURL == Url("", "", "none")
Err == Url("", "", "error")

CanonURLs == {Url("x", "a", "canon"), Url("x", "b", "canon"),
              Url("x", "c", "canon"), Url("y", "a", "canon")}

\* web.NormalizeURL: rejects malformed input and relative references,
\* normalizes letter case, keeps a trailing slash of the path.
NormalizeURL(raw) ==
    CASE raw.form \in {"bad", "rel", "none", "error"} -> Err
      [] raw.form = "upper" -> [raw EXCEPT !.form = "canon"]
      [] OTHER -> raw

\* strings.TrimSuffix(url.String(), "/")
TrimSuffix(u) == IF u.form = "slash" THEN [u EXCEPT !.form = "canon"] ELSE u

\* The key enqueue stores in processedURLs and sends on the queue.
Canonical(raw) == TrimSuffix(NormalizeURL(raw))

\* sort.Strings order of the URL strings.
HostRank(h) == CASE h = "x" -> 1 [] h = "y" -> 2 [] OTHER -> 0
PathRank(p) == CASE p = "a" -> 1 [] p = "b" -> 2 [] p = "c" -> 3 [] OTHER -> 0
FormRank(f) == CASE f = "canon" -> 0 [] f = "slash" -> 1 [] OTHER -> 2
Rank(u) == HostRank(u.host) * 100 + PathRank(u.path) * 10 + FormRank(u.form)

\* ResolveLink: a relative reference is resolved against https://<domain>,
\* an absolute one is normalized; what fails to normalize is rejected.
ResolveLink(domain, value) ==
    IF value.form = "bad" THEN Err
    ELSE IF value.form = "rel"
         THEN NormalizeURL(Url(domain, value.path, "canon"))
         ELSE NormalizeURL(value)

RECURSIVE SortedSeq(_)
SortedSeq(S) ==
    IF S = {} THEN << >>
    ELSE LET m == CHOOSE x \in S : \A y \in S : Rank(x) <= Rank(y)
         IN  << m >> \o SortedSeq(S \ {m})

SeqRange(s) == {s[k] : k \in 1..Len(s)}

\* extractURLs: resolve every link, drop the rejected ones, deduplicate the
\* resulting strings and return them sorted.
extractURLs(links, domain) ==
    SortedSeq({ResolveLink(domain, l) : l \in SeqRange(links)} \ {Err})

\* web.AreSameHost
AreSameHost(u, v) == u.host = v.host

RECURSIVE FilterSeq(_, _, _)
FilterSeq(s, page, behavior) ==
    IF s = << >> THEN << >>
    ELSE LET u == NormalizeURL(Head(s))
             keep == /\ u # Err
                     /\ \/ behavior = "any"
                        \/ behavior = "same-domain" /\ AreSameHost(u, page)
         IN  (IF keep THEN << Head(s) >> ELSE << >>)
             \o FilterSeq(Tail(s), page, behavior)

\* A filter that lets every link through.
filterLinksAll(behavior, pageURL, links) == links

\* filterLinks: nothing under FollowNone, else the links that normalize and
\* that the follow behaviour accepts for the page.
filterLinks(behavior, pageURL, links) ==
    IF behavior = "none" THEN << >> ELSE FilterSeq(links, pageURL, behavior)

(***************************************************************************)
(* The web the fetcher sees: response.Links of every page.                 *)
(***************************************************************************)
PageLinks(u) ==
    CASE u = Url("x", "a", "canon") ->
            << Url("x", "b", "slash"), Url("", "b", "rel"),
               Url("x", "c", "canon"), Url("x", "a", "bad") >>
      [] u = Url("x", "b", "canon") ->
            << Url("x", "a", "upper") >>
      [] u = Url("x", "c", "canon") ->
            << Url("y", "a", "canon") >>
      [] OTHER -> << >>

(***************************************************************************)
(* State.                                                                  *)
(***************************************************************************)
VARIABLES
    \* Options / fields of Crawler fixed by New
    maxURLs,        \* c.maxURLs
    workers,        \* c.workers
    queueSize,      \* cap(c.queue)
    followBehavior, \* c.followBehavior
    useCache,       \* c.cache != nil
    \* fields of Crawler that change
    running,        \* c.running
    queue,          \* contents of the channel c.queue
    queueClosed,    \* c.queue has been closed
    processedURLs,  \* keys of c.processedURLs
    stats,          \* c.stats: processed, succeeded, failed
    activeWorkers,  \* c.activeWorkers
    \* per Crawl call
    seeds,          \* the urls argument
    parentDone,     \* the caller's context is cancelled
    cancelled,      \* cancel() of the derived context has been called
    wg,             \* the WaitGroup counter
    mon,            \* position of the idle monitor
    result,         \* what Crawl returned
    \* per goroutine
    pc,             \* position
    rawURL,         \* worker: the URL received from the queue
    links,          \* worker: discoveredLinks
    urls,           \* enqueue: the candidates not yet looked at
    queued,         \* enqueue: queued
    value,          \* enqueue: value
    allowedCount,   \* enqueue: allowedCount, when maxURLs > 0
    \* the process
    panicked,       \* a goroutine panicked: the process is gone
    \* history
    inserted,       \* per canonical URL: number of sends on the queue
    dequeued,       \* per canonical URL: number of receives
    delivered,      \* per canonical URL: number of completed callbacks
    via,            \* per canonical URL: the page whose admission sent it
    fetched,        \* per call: one of its workers invoked Fetch
    called,         \* per call: one of its workers invoked the callback
    afterReturn,    \* per call: it began after another call had returned
    freshSeeds,     \* per call: its seeds were valid and unseen when it began
    owed            \* URLs that were queued when some fetch failed

config == << maxURLs, workers, queueSize, followBehavior, useCache, seeds >>
shared == << running, queue, queueClosed, processedURLs, stats, activeWorkers >>
percall == << parentDone, cancelled, wg, mon, result >>
local == << pc, rawURL, links, urls, queued, value >>
history == << inserted, dequeued, delivered, via, fetched, called,
              afterReturn, freshSeeds, owed >>
vars == << config, shared, percall, local, allowedCount, panicked, history >>

Ctl(c) == << c, 0 >>
WorkersOf(c) == {<< c, i >> : i \in 1..workers}
IsCtl(p) == p[2] = 0

\* ctx.Done() of the context derived in Crawl is ready.
ctxDone(c) == parentDone[c] \/ cancelled[c]

(***************************************************************************)
(* Configurations and seed lists the model starts from.                    *)
(***************************************************************************)
XA == Url("x", "a", "canon")
XB == Url("x", "b", "canon")
XC == Url("x", "c", "canon")
YA == Url("y", "a", "canon")

SeedLists ==
    { << >>,
      << Url("x", "a", "bad") >>,
      << Url("x", "a", "upper"), Url("x", "a", "slash") >>,
      << XA, XC >> }

Configs ==
    { [maxURLs |-> 0, queueSize |-> 2, followBehavior |-> "any", useCache |-> FALSE],
      [maxURLs |-> 2, queueSize |-> 3, followBehavior |-> "same-domain", useCache |-> FALSE],
      [maxURLs |-> 0, queueSize |-> 1, followBehavior |-> "none", useCache |-> TRUE] }

\* The state New leaves behind, for the configurations cfs, the worker counts
\* ws and the seed lists sl of the calls to come.
Start(cfs, ws, sl) ==
    /\ \E cf \in cfs :
          /\ maxURLs = cf.maxURLs
          /\ queueSize = cf.queueSize
          /\ followBehavior = cf.followBehavior
          /\ useCache = cf.useCache
    /\ workers \in ws
    /\ seeds \in sl
    /\ running = FALSE
    /\ queue = << >>
    /\ queueClosed = FALSE
    /\ processedURLs = {}
    /\ stats = [processed |-> 0, succeeded |-> 0, failed |-> 0]
    /\ activeWorkers = 0
    /\ parentDone = [c \in Calls |-> FALSE]
    /\ cancelled = [c \in Calls |-> FALSE]
    /\ wg = [c \in Calls |-> 0]
    /\ mon = [c \in Calls |-> "none"]
    /\ result = [c \in Calls |-> "none"]
    /\ pc = [p \in Procs |-> IF IsCtl(p) THEN "call" ELSE "none"]
    /\ rawURL = [p \in Procs |-> NoURL]
    /\ links = [p \in Procs |-> << >>]
    /\ urls = [p \in Procs |-> << >>]
    /\ queued = [p \in Procs |-> 0]
    /\ allowedCount = [p \in Procs |-> 0]
    /\ value = [p \in Procs |-> NoURL]
    /\ panicked = FALSE
    /\ inserted = [u \in CanonURLs |-> 0]
    /\ dequeued = [u \in CanonURLs |-> 0]
    /\ delivered = [u \in CanonURLs |-> 0]
    /\ via = [u \in CanonURLs |-> NoURL]
    /\ fetched = [c \in Calls |-> FALSE]
    /\ called = [c \in Calls |-> FALSE]
    /\ afterReturn = [c \in Calls |-> FALSE]
    /\ freshSeeds = [c \in Calls |-> FALSE]
    /\ owed = {}

\* One call of Crawl is made.
Init ==
    Start(Configs, 1..MaxWorkers,
          {sl \in [Calls -> SeedLists] : \A c \in Calls \ {1} : sl[c] = << >>})

\* Every call of Calls is made, one worker each.
ReentrySeedLists == { << >>, << XA >>, << XB >> }

ReentryConfigs ==
    { [maxURLs |-> 0, queueSize |-> 2, followBehavior |-> "none", useCache |-> FALSE] }

InitReentry == Start(ReentryConfigs, {1}, [Calls -> ReentrySeedLists])

(***************************************************************************)
(* enqueue (admission), run by the goroutine p of call p[1]: by the        *)
(* controller for the seeds and by a worker for the links of a page.       *)
(***************************************************************************)
Seed == Url("", "", "seed")

\* What the caller of enqueue does with (n, failed): Crawl returns the error,
\* returns nil when nothing was queued, or goes on to wg.Wait(); processURL
\* only logs and returns to the worker loop.
EnqueueReturn(p, n, failed) ==
    /\ queued' = [queued EXCEPT ![p] = n]
    /\ urls' = [urls EXCEPT ![p] = << >>]
    /\ value' = [value EXCEPT ![p] = NoURL]
    /\ IF IsCtl(p)
       THEN /\ pc' = [pc EXCEPT ![p] = IF failed \/ n = 0 THEN "defer_close" ELSE "wait"]
            /\ result' = [result EXCEPT ![p[1]] =
                             IF failed THEN "context canceled" ELSE "nil"]
       ELSE /\ pc' = [pc EXCEPT ![p] = "L234"]
            /\ UNCHANGED result

\* A clamp that keeps every candidate.
ClampNone(us, n) == us

\* Lines 190-195: urls = urls[:allowedCount] when there are more.
Clamp(us, n) == IF n < Len(us) THEN SubSeq(us, 1, n) ELSE us

\* Lines 187-195: the budget clamp, reading the processed counter once.
EnqueueBudget(p) ==
    /\ ~panicked
    /\ pc[p] = "L187"
    /\ IF maxURLs > 0
       THEN LET n == maxURLs - stats.processed
            IN  /\ allowedCount' = [allowedCount EXCEPT ![p] = n]
                /\ IF n <= 0
                   THEN EnqueueReturn(p, 0, FALSE)
                   ELSE /\ urls' = [urls EXCEPT ![p] = Clamp(urls[p], n)]
                        /\ queued' = [queued EXCEPT ![p] = 0]
                        /\ pc' = [pc EXCEPT ![p] = "L198"]
                        /\ UNCHANGED << value, result >>
       ELSE /\ queued' = [queued EXCEPT ![p] = 0]
            /\ pc' = [pc EXCEPT ![p] = "L198"]
            /\ UNCHANGED << urls, value, result, allowedCount >>
    /\ UNCHANGED << config, shared, parentDone, cancelled, wg, mon, rawURL, links,
                    panicked, history >>

\* A Store that does not report whether the key was present.
LoadOrStoreAlwaysNew(v) == TRUE

\* c.processedURLs.LoadOrStore(value, true): TRUE when the key was absent.
LoadOrStoreIsNew(v) == v \notin processedURLs

\* Lines 198-208: the next candidate is normalized and, unless it is invalid,
\* test-and-inserted into processedURLs; the loop ends when none is left.
EnqueueLoadOrStore(p) ==
    /\ ~panicked
    /\ pc[p] = "L198"
    /\ IF urls[p] = << >>
       THEN /\ EnqueueReturn(p, queued[p], FALSE)
            /\ UNCHANGED processedURLs
       ELSE LET url == NormalizeURL(Head(urls[p]))
                v == TrimSuffix(url)
            IN  /\ urls' = [urls EXCEPT ![p] = Tail(urls[p])]
                /\ IF url = Err
                   THEN UNCHANGED << processedURLs, value, pc >>
                   ELSE /\ processedURLs' = processedURLs \cup {v}
                        /\ IF LoadOrStoreIsNew(v)
                           THEN /\ value' = [value EXCEPT ![p] = v]
                                /\ pc' = [pc EXCEPT ![p] = "L209"]
                           ELSE UNCHANGED << value, pc >>
                /\ UNCHANGED << queued, result >>
    /\ UNCHANGED << config, allowedCount, running, queue, queueClosed, stats, activeWorkers,
                    parentDone, cancelled, wg, mon, rawURL, links, panicked, history >>

\* A channel without a capacity limit: the send is always ready.
SendAlwaysReady == TRUE

\* Lines 209-216: the select.  The send is ready when the channel has room;
\* a send on a closed channel is ready too and panics.  ctx.Done() is ready
\* once the context is cancelled.  The default runs when neither is ready.
SendReady == queueClosed \/ Len(queue) < queueSize

EnqueueSelect(p) ==
    /\ ~panicked
    /\ pc[p] = "L209"
    /\ \/ /\ SendReady /\ ~queueClosed
          /\ queue' = Append(queue, value[p])
          /\ queued' = [queued EXCEPT ![p] = queued[p] + 1]
          /\ value' = [value EXCEPT ![p] = NoURL]
          /\ pc' = [pc EXCEPT ![p] = "L198"]
          /\ inserted' = [inserted EXCEPT ![value[p]] = @ + 1]
          /\ via' = [via EXCEPT ![value[p]] = IF IsCtl(p) THEN Seed ELSE rawURL[p]]
          /\ UNCHANGED << urls, result, panicked >>
       \/ /\ SendReady /\ queueClosed
          /\ panicked' = TRUE
          /\ UNCHANGED << queue, queued, value, pc, urls, result, inserted, via >>
       \/ /\ ctxDone(p[1])
          /\ EnqueueReturn(p, queued[p], TRUE)
          /\ UNCHANGED << queue, panicked, inserted, via >>
       \/ /\ ~SendReady /\ ~ctxDone(p[1])
          /\ value' = [value EXCEPT ![p] = NoURL]
          /\ pc' = [pc EXCEPT ![p] = "L198"]
          /\ UNCHANGED << queue, queued, urls, result, panicked, inserted, via >>
    /\ UNCHANGED << config, allowedCount, running, queueClosed, processedURLs, stats, activeWorkers,
                    parentDone, cancelled, wg, mon, rawURL, links,
                    dequeued, delivered, fetched, called, afterReturn, freshSeeds, owed >>

(***************************************************************************)
(* Crawl, the c-th call.                                                   *)
(***************************************************************************)
\* A guard whose rejection runs the cleanup of lines 150-153 as well.
CrawlGuardResetting(c) ==
    /\ ~panicked
    /\ pc[Ctl(c)] = "call"
    /\ afterReturn' = [afterReturn EXCEPT ![c] =
                          \E d \in Calls : pc[Ctl(d)] = "returned"]
    /\ freshSeeds' = [freshSeeds EXCEPT ![c] =
                         /\ seeds[c] # << >>
                         /\ \A r \in SeqRange(seeds[c]) :
                               /\ NormalizeURL(r) # Err
                               /\ Canonical(r) \notin processedURLs]
    /\ IF running
       THEN /\ pc' = [pc EXCEPT ![Ctl(c)] = "returned"]
            /\ result' = [result EXCEPT ![c] = "already running"]
            /\ running' = FALSE
       ELSE /\ pc' = [pc EXCEPT ![Ctl(c)] = "L146"]
            /\ UNCHANGED << result, running >>
    /\ UNCHANGED << config, allowedCount, queue, queueClosed, processedURLs, stats,
                    activeWorkers, parentDone, cancelled, wg, mon, rawURL, links,
                    urls, queued, value, panicked, inserted, dequeued, delivered,
                    via, fetched, called, owed >>

\* Line 143: the read of c.running; a call that finds it set returns the
\* error at once.
CrawlGuard(c) ==
    /\ ~panicked
    /\ pc[Ctl(c)] = "call"
    /\ afterReturn' = [afterReturn EXCEPT ![c] =
                          \E d \in Calls : pc[Ctl(d)] = "returned"]
    /\ freshSeeds' = [freshSeeds EXCEPT ![c] =
                         /\ seeds[c] # << >>
                         /\ \A r \in SeqRange(seeds[c]) :
                               /\ NormalizeURL(r) # Err
                               /\ Canonical(r) \notin processedURLs]
    /\ IF running
       THEN /\ pc' = [pc EXCEPT ![Ctl(c)] = "returned"]
            /\ result' = [result EXCEPT ![c] = "already running"]
       ELSE /\ pc' = [pc EXCEPT ![Ctl(c)] = "L146"]
            /\ UNCHANGED result
    /\ UNCHANGED << config, allowedCount, shared, parentDone, cancelled, wg, mon, rawURL, links,
                    urls, queued, value, panicked, inserted, dequeued, delivered,
                    via, fetched, called, owed >>

\* Line 146: the write of c.running.
CrawlSetRunning(c) ==
    /\ ~panicked
    /\ pc[Ctl(c)] = "L146"
    /\ running' = TRUE
    /\ pc' = [pc EXCEPT ![Ctl(c)] = "L155"]
    /\ UNCHANGED << config, allowedCount, queue, queueClosed, processedURLs, stats, activeWorkers,
                    percall, rawURL, links, urls, queued, value, panicked, history >>

\* Lines 149-172: derive the context, start the workers and the idle
\* monitor, and call enqueue with the seeds.
CrawlStart(c) ==
    /\ ~panicked
    /\ pc[Ctl(c)] = "L155"
    /\ wg' = [wg EXCEPT ![c] = workers]
    /\ mon' = [mon EXCEPT ![c] = "tick"]
    /\ pc' = [p \in Procs |->
                 IF p = Ctl(c) THEN "L187"
                 ELSE IF p \in WorkersOf(c) THEN "L225" ELSE pc[p]]
    /\ urls' = [urls EXCEPT ![Ctl(c)] = seeds[c]]
    /\ UNCHANGED << config, allowedCount, shared, parentDone, cancelled, result, rawURL, links,
                    queued, value, panicked, history >>

\* Line 181: wg.Wait() returns when every worker has called wg.Done().
CrawlWait(c) ==
    /\ ~panicked
    /\ pc[Ctl(c)] = "wait"
    /\ wg[c] = 0
    /\ pc' = [pc EXCEPT ![Ctl(c)] = "defer_close"]
    /\ UNCHANGED << config, allowedCount, shared, percall, rawURL, links, urls, queued, value,
                    panicked, history >>

\* Line 161, run first on the way out: close(c.queue), which panics when the
\* channel is closed already.
CrawlDeferClose(c) ==
    /\ ~panicked
    /\ pc[Ctl(c)] = "defer_close"
    /\ IF queueClosed
       THEN /\ panicked' = TRUE
            /\ UNCHANGED << queueClosed, pc >>
       ELSE /\ queueClosed' = TRUE
            /\ pc' = [pc EXCEPT ![Ctl(c)] = "defer_reset"]
            /\ UNCHANGED panicked
    /\ UNCHANGED << config, allowedCount, running, queue, processedURLs, stats, activeWorkers,
                    percall, rawURL, links, urls, queued, value, history >>

\* Lines 150-153, run last: c.running = false; cancel(); then Crawl returns.
CrawlDeferReset(c) ==
    /\ ~panicked
    /\ pc[Ctl(c)] = "defer_reset"
    /\ running' = FALSE
    /\ cancelled' = [cancelled EXCEPT ![c] = TRUE]
    /\ pc' = [pc EXCEPT ![Ctl(c)] = "returned"]
    /\ UNCHANGED << config, allowedCount, queue, queueClosed, processedURLs, stats, activeWorkers,
                    parentDone, wg, mon, result, rawURL, links, urls, queued, value,
                    panicked, history >>

\* The caller cancels the context it passed to Crawl.
CallerCancel(c) ==
    /\ ~panicked
    /\ pc[Ctl(c)] # "returned"
    /\ ~parentDone[c]
    /\ parentDone' = [parentDone EXCEPT ![c] = TRUE]
    /\ UNCHANGED << config, allowedCount, shared, cancelled, wg, mon, result, local, panicked,
                    history >>

(***************************************************************************)
(* worker and processURL, run by the worker goroutine p.                   *)
(***************************************************************************)
\* Lines 225-227: the select takes ctx.Done(); the deferred wg.Done() runs.
WorkerDone(p) ==
    /\ ~panicked
    /\ pc[p] = "L225"
    /\ ctxDone(p[1])
    /\ pc' = [pc EXCEPT ![p] = "exited"]
    /\ wg' = [wg EXCEPT ![p[1]] = @ - 1]
    /\ UNCHANGED << config, allowedCount, shared, parentDone, cancelled, mon, result, rawURL,
                    links, urls, queued, value, panicked, history >>

\* Lines 228-231: the select takes the receive.  A buffered entry is handed
\* over even after close; an empty closed channel yields !ok and the worker
\* returns.
WorkerReceive(p) ==
    /\ ~panicked
    /\ pc[p] = "L225"
    /\ \/ /\ queue # << >>
          /\ rawURL' = [rawURL EXCEPT ![p] = Head(queue)]
          /\ queue' = Tail(queue)
          /\ dequeued' = [dequeued EXCEPT ![Head(queue)] = @ + 1]
          /\ pc' = [pc EXCEPT ![p] = "L232"]
          /\ UNCHANGED wg
       \/ /\ queue = << >>
          /\ queueClosed
          /\ pc' = [pc EXCEPT ![p] = "exited"]
          /\ wg' = [wg EXCEPT ![p[1]] = @ - 1]
          /\ UNCHANGED << rawURL, queue, dequeued >>
    /\ UNCHANGED << config, allowedCount, running, queueClosed, processedURLs, stats, activeWorkers,
                    parentDone, cancelled, mon, result, links, urls, queued, value,
                    panicked, inserted, delivered, via, fetched, called,
                    afterReturn, freshSeeds, owed >>

\* Line 232: c.incrementActiveWorkers()
WorkerIncrementActive(p) ==
    /\ ~panicked
    /\ pc[p] = "L232"
    /\ activeWorkers' = activeWorkers + 1
    /\ pc' = [pc EXCEPT ![p] = "L243"]
    /\ UNCHANGED << config, allowedCount, running, queue, queueClosed, processedURLs, stats,
                    percall, rawURL, links, urls, queued, value, panicked, history >>

\* url.Parse(rawURL) returns no error: only a malformed string fails, a
\* relative reference parses.
ParseOK(u) == u.form \in {"canon", "slash", "upper", "rel"}

\* Lines 243-252: c.stats.IncrementProcessed(); when url.Parse fails
\* processURL logs and returns without calling back.
ProcessIncrementProcessed(p) ==
    /\ ~panicked
    /\ pc[p] = "L243"
    /\ stats' = [stats EXCEPT !.processed = @ + 1]
    /\ pc' = [pc EXCEPT ![p] = IF ParseOK(rawURL[p]) THEN "L257" ELSE "L234"]
    /\ UNCHANGED << config, allowedCount, running, queue, queueClosed, processedURLs,
                    activeWorkers, percall, rawURL, links, urls, queued, value,
                    panicked, history >>

\* Lines 257-313: with a cache, Get may hit and the response carries no
\* links; otherwise Fetch is invoked and either fails or returns the page,
\* from which the links are extracted.
ProcessFetch(p) ==
    /\ ~panicked
    /\ pc[p] = "L257"
    /\ \/ /\ useCache
          /\ links' = [links EXCEPT ![p] = << >>]
          /\ pc' = [pc EXCEPT ![p] = "L314"]
          /\ UNCHANGED << fetched, owed >>
       \/ /\ fetched' = [fetched EXCEPT ![p[1]] = TRUE]
          /\ \/ /\ pc' = [pc EXCEPT ![p] = "L280"]
                /\ owed' = owed \cup SeqRange(queue)
                /\ UNCHANGED links
             \/ /\ links' = [links EXCEPT ![p] =
                                extractURLs(PageLinks(rawURL[p]), rawURL[p].host)]
                /\ pc' = [pc EXCEPT ![p] = "L314"]
                /\ UNCHANGED owed
    /\ UNCHANGED << config, allowedCount, shared, percall, rawURL, urls, queued, value, panicked,
                    inserted, dequeued, delivered, via, called, afterReturn, freshSeeds >>

\* processURL counting the failure without having called back.
ProcessCallbackFailedSkipped(p) ==
    /\ ~panicked
    /\ pc[p] = "L280"
    /\ pc' = [pc EXCEPT ![p] = "L281"]
    /\ UNCHANGED << config, allowedCount, shared, percall, rawURL, links, urls, queued, value,
                    panicked, history >>

\* Line 280: the callback with the fetch error.
ProcessCallbackFailed(p) ==
    /\ ~panicked
    /\ pc[p] = "L280"
    /\ delivered' = [delivered EXCEPT ![rawURL[p]] = @ + 1]
    /\ called' = [called EXCEPT ![p[1]] = TRUE]
    /\ pc' = [pc EXCEPT ![p] = "L281"]
    /\ UNCHANGED << config, allowedCount, shared, percall, rawURL, links, urls, queued, value,
                    panicked, inserted, dequeued, via, fetched, afterReturn, freshSeeds, owed >>

\* Lines 281-282: c.stats.IncrementFailed(); return.
ProcessIncrementFailed(p) ==
    /\ ~panicked
    /\ pc[p] = "L281"
    /\ stats' = [stats EXCEPT !.failed = @ + 1]
    /\ pc' = [pc EXCEPT ![p] = "L234"]
    /\ UNCHANGED << config, allowedCount, running, queue, queueClosed, processedURLs,
                    activeWorkers, percall, rawURL, links, urls, queued, value,
                    panicked, history >>

\* processURL going on to the admission without having called back.
ProcessCallbackSkipped(p) ==
    /\ ~panicked
    /\ pc[p] = "L314"
    /\ pc' = [pc EXCEPT ![p] = "L321"]
    /\ UNCHANGED << config, allowedCount, shared, percall, rawURL, links, urls, queued, value,
                    panicked, history >>

\* Lines 314-320: the callback with the Result of the page.
ProcessCallback(p) ==
    /\ ~panicked
    /\ pc[p] = "L314"
    /\ delivered' = [delivered EXCEPT ![rawURL[p]] = @ + 1]
    /\ called' = [called EXCEPT ![p[1]] = TRUE]
    /\ pc' = [pc EXCEPT ![p] = "L321"]
    /\ UNCHANGED << config, allowedCount, shared, percall, rawURL, links, urls, queued, value,
                    panicked, inserted, dequeued, via, fetched, afterReturn, freshSeeds, owed >>

\* Lines 321-325: c.stats.IncrementSucceeded(), then the links are filtered
\* and enqueue is called with them.
ProcessIncrementSucceeded(p) ==
    /\ ~panicked
    /\ pc[p] = "L321"
    /\ stats' = [stats EXCEPT !.succeeded = @ + 1]
    /\ urls' = [urls EXCEPT ![p] = filterLinks(followBehavior, rawURL[p], links[p])]
    /\ pc' = [pc EXCEPT ![p] = "L187"]
    /\ UNCHANGED << config, allowedCount, running, queue, queueClosed, processedURLs,
                    activeWorkers, percall, rawURL, links, queued, value,
                    panicked, history >>

\* Line 234: c.decrementActiveWorkers(), and back to the select.
WorkerDecrementActive(p) ==
    /\ ~panicked
    /\ pc[p] = "L234"
    /\ activeWorkers' = activeWorkers - 1
    /\ rawURL' = [rawURL EXCEPT ![p] = NoURL]
    /\ links' = [links EXCEPT ![p] = << >>]
    /\ queued' = [queued EXCEPT ![p] = 0]
    /\ allowedCount' = [allowedCount EXCEPT ![p] = 0]
    /\ pc' = [pc EXCEPT ![p] = "L225"]
    /\ UNCHANGED << config, running, queue, queueClosed, processedURLs, stats,
                    percall, urls, value, panicked, history >>

(***************************************************************************)
(* idleMonitor of call c.                                                  *)
(***************************************************************************)
\* Lines 465-467: the select takes ctx.Done().
MonitorDone(c) ==
    /\ ~panicked
    /\ mon[c] = "tick"
    /\ ctxDone(c)
    /\ mon' = [mon EXCEPT ![c] = "exited"]
    /\ UNCHANGED << config, allowedCount, shared, parentDone, cancelled, wg, result, local,
                    panicked, history >>

\* Lines 468-470: a tick; c.getActiveWorkers() is read first.
MonitorTick(c) ==
    /\ ~panicked
    /\ mon[c] = "tick"
    /\ activeWorkers = 0
    /\ mon' = [mon EXCEPT ![c] = "len"]
    /\ UNCHANGED << config, allowedCount, shared, parentDone, cancelled, wg, result, local,
                    panicked, history >>

\* Lines 470-474: len(c.queue) is read next; when it is 0 too the monitor
\* cancels the context and returns.
MonitorCheckQueue(c) ==
    /\ ~panicked
    /\ mon[c] = "len"
    /\ IF Len(queue) = 0
       THEN /\ cancelled' = [cancelled EXCEPT ![c] = TRUE]
            /\ mon' = [mon EXCEPT ![c] = "exited"]
       ELSE /\ mon' = [mon EXCEPT ![c] = "tick"]
            /\ UNCHANGED cancelled
    /\ UNCHANGED << config, allowedCount, shared, parentDone, wg, result, local, panicked,
                    history >>

(***************************************************************************)
(* Specifications.                                                         *)
(***************************************************************************)
Step(p) ==
    \/ EnqueueBudget(p)
    \/ EnqueueLoadOrStore(p)
    \/ EnqueueSelect(p)
    \/ WorkerDone(p)
    \/ WorkerReceive(p)
    \/ WorkerIncrementActive(p)
    \/ ProcessIncrementProcessed(p)
    \/ ProcessFetch(p)
    \/ ProcessCallbackFailed(p)
    \/ ProcessIncrementFailed(p)
    \/ ProcessCallback(p)
    \/ ProcessIncrementSucceeded(p)
    \/ WorkerDecrementActive(p)

CallStep(c) ==
    \/ CrawlGuard(c)
    \/ CrawlSetRunning(c)
    \/ CrawlStart(c)
    \/ CrawlWait(c)
    \/ CrawlDeferClose(c)
    \/ CrawlDeferReset(c)
    \/ MonitorDone(c)
    \/ MonitorTick(c)
    \/ MonitorCheckQueue(c)

\* One Crawl call on a fresh Crawler.
Next ==
    \/ \E p \in {1} \X (0..MaxWorkers) : Step(p)
    \/ CallStep(1)
    \/ CallerCancel(1)

Spec == Init /\ [][Next]_vars

ControllerStep(c) ==
    \/ Step(Ctl(c))
    \/ CrawlGuard(c)
    \/ CrawlSetRunning(c)
    \/ CrawlStart(c)
    \/ CrawlWait(c)
    \/ CrawlDeferClose(c)
    \/ CrawlDeferReset(c)

MonitorStep(c) == MonitorDone(c) \/ MonitorTick(c) \/ MonitorCheckQueue(c)

\* One Crawl call whose caller never cancels.  Every goroutine that can take
\* a step eventually takes one, and the ticker of the idle monitor keeps
\* firing.
NextLive ==
    \/ \E p \in {1} \X (0..MaxWorkers) : Step(p)
    \/ CallStep(1)

Fairness ==
    /\ WF_vars(ControllerStep(1))
    /\ WF_vars(MonitorStep(1))
    /\ \A i \in 1..MaxWorkers : WF_vars(Step(<< 1, i >>))

LiveSpec == Init /\ [][NextLive]_vars /\ Fairness

\* Every call of Calls is made on the one Crawler, in any interleaving; no
\* caller cancels.
NextReentry ==
    \/ \E p \in Procs : Step(p)
    \/ \E c \in Calls : CallStep(c)

SpecReentry == InitReentry /\ [][NextReentry]_vars

\* Every call of Calls is made while the first one crawls one page.
InitReject ==
    Start(ReentryConfigs, {1},
          {[c \in Calls |-> IF c = 1 THEN << XA >> ELSE << >>]})

SpecReject == InitReject /\ [][NextReentry]_vars

(***************************************************************************)
(* Properties.                                                             *)
(***************************************************************************)
Returned(c) == pc[Ctl(c)] = "returned"

\* C1: whatever the interleaving of the admission calls of the controller and
\* of the workers, and whatever the spellings offered, every canonical URL is
\* sent on the queue at most once and received by a worker at most once.
C1_EnqueuedAtMostOnce ==
    \A u \in CanonURLs : inserted[u] <= 1 /\ dequeued[u] <= 1

\* Seeding offered two spellings of one canonical URL, queued one of them,
\* and a worker has received it.
C1_Witness ==
    /\ seeds[1] = << Url("x", "a", "upper"), Url("x", "a", "slash") >>
    /\ pc[Ctl(1)] = "wait"
    /\ queued[Ctl(1)] = 1
    /\ inserted[XA] = 1
    /\ dequeued[XA] = 1

\* C5: a URL that entered the queue through the admission made while page P
\* was processed is received by a worker only after the callback with P's
\* Result has completed.
C5_ParentResultFirst ==
    \A u \in CanonURLs :
        (dequeued[u] > 0 /\ via[u] \in CanonURLs) => delivered[via[u]] > 0

\* A discovered child has been received and its own Result delivered.
C5_Witness ==
    \E u \in CanonURLs :
        /\ via[u] \in CanonURLs
        /\ dequeued[u] > 0
        /\ delivered[u] > 0
        /\ delivered[via[u]] > 0

\* C2: with a page budget N > 0 the processed counter never exceeds
\* N + (workers - 1); with one worker it never exceeds N.
C2_BudgetCeiling ==
    maxURLs > 0 => stats.processed <= maxURLs + (workers - 1)

\* A call that found c.running clear at line 143 and has not returned yet.
PastGuard(c) == pc[Ctl(c)] \notin {"call", "returned"}

\* C3: at most one Crawl call is past the running guard at a time.
C3_OneRunAtATime == Cardinality({c \in Calls : PastGuard(c)}) <= 1

\* C4: a Crawl call that begins after another call on the instance has
\* returned, with valid seeds not seen before, is not rejected and meets no
\* failure (no send on, and no second close of, the closed queue).
C4_LaterCallProceeds ==
    \A c \in Calls :
        (afterReturn[c] /\ freshSeeds[c]) =>
            (~panicked /\ result[c] # "already running")

\* The seeding of call c is over and queued nothing, without an error.
SeededNothing(c) ==
    /\ pc[Ctl(c)] \in {"defer_close", "defer_reset", "returned"}
    /\ result[c] = "nil"
    /\ queued[Ctl(c)] = 0

\* C7: when the seeding of a call admits nothing, the call returns nil (it
\* does not fail on its way out), and no Fetch and no callback is ever
\* invoked for that run.
C7_NoSeedNoCrawl ==
    \A c \in Calls :
        SeededNothing(c) => (~panicked /\ ~fetched[c] /\ ~called[c])

\* C8: when a Crawl call that started workers returns, every worker of that
\* run has exited.
C8_WorkersExitedAtReturn ==
    \A c \in Calls :
        (Returned(c) /\ result[c] # "already running") =>
            \A w \in WorkersOf(c) : pc[w] = "exited"

\* C10: Crawl returns an error only when it was rejected as re-entrant or
\* the caller's context was cancelled.
C10_ErrorOnlyFromCaller ==
    \A c \in Calls :
        (Returned(c) /\ result[c] # "nil") =>
            (result[c] = "already running" \/ parentDone[c])

\* The seeding of call c has sent at least one URL on the queue.
SeedAdmitted == \E u \in CanonURLs : via[u] = Seed

\* C6: under fair scheduling, and with a caller that never cancels, a Crawl
\* call that admitted at least one seed eventually returns.
C6_EventuallyReturns == SeedAdmitted ~> Returned(1)

\* The run of call c is over: Crawl has returned and its workers have exited.
RunOver(c) == Returned(c) /\ \A w \in WorkersOf(c) : pc[w] = "exited"

\* C9: with a caller that never cancels, every URL that was in the queue
\* when some fetch failed is still received and its Result delivered: no
\* run ends with such a URL undelivered.
C9_QueuedStillProcessed ==
    RunOver(1) => \A u \in owed : delivered[u] > 0

\* This step is call c returning the already-running error.
Rejects(c) == result[c] # "already running" /\ result'[c] = "already running"

\* C11: the step that rejects a Crawl call leaves the running flag set and
\* changes neither the queue (contents, closed or not), nor any run context,
\* nor the dedup set, nor the stats, nor the position of any worker, monitor
\* or other call.
C11_RejectionMutatesNothing ==
    [][\A c \in Calls :
          Rejects(c) =>
              /\ running'
              /\ UNCHANGED << shared, parentDone, cancelled, wg, mon >>
              /\ \A p \in Procs : p # Ctl(c) => pc'[p] = pc[p]]_vars

\* A call has been rejected while another run is past the guard and has
\* delivered a Result.
C11_Witness ==
    \E c, d \in Calls :
        /\ c # d
        /\ result[c] = "already running"
        /\ PastGuard(d)
        /\ running
        /\ called[d]

(***************************************************************************)
(* The bounded queue and the select of enqueue.                            *)
(***************************************************************************)
\* This step is goroutine p leaving the select of lines 209-216, entered
\* while the open queue held queueSize entries.
AttemptOnFull(p) ==
    /\ pc[p] = "L209"
    /\ ~queueClosed
    /\ Len(queue) = queueSize
    /\ pc'[p] # "L209"

\* The default case: the candidate is dropped, the count is not raised and
\* the loop goes on without an error.
Dropped(p) ==
    /\ pc'[p] = "L198"
    /\ queue' = queue
    /\ queued'[p] = queued[p]
    /\ result' = result

\* The ctx.Done() case: enqueue returns (queued, ctx.Err()).
ReturnedError(p) ==
    /\ pc'[p] = IF IsCtl(p) THEN "defer_close" ELSE "L234"
    /\ queue' = queue
    /\ IsCtl(p) => result'[p[1]] = "context canceled"

\* A goroutine at the select can always take a step.
SelectNeverWaits == \A p \in Procs : pc[p] = "L209" /\ ~panicked => ENABLED EnqueueSelect(p)

\* C12 (as stated): the queue never holds more than queueSize entries, and
\* every attempt made on a full queue drops the candidate without an error.
C12_FullFrontierDrops ==
    [][/\ Len(queue') <= queueSize'
       /\ \A p \in Procs : AttemptOnFull(p) => Dropped(p)]_vars

\* C12 (amended): the queue never holds more than queueSize entries; an
\* attempt on a full queue never waits; it drops the candidate without an
\* error when the run context is live and returns the context's error when
\* the run context is cancelled.
C12_FullFrontierDropsOrCancels ==
    /\ []SelectNeverWaits
    /\ [][/\ Len(queue') <= queueSize'
          /\ \A p \in Procs :
                AttemptOnFull(p) =>
                    IF ctxDone(p[1]) THEN ReturnedError(p) ELSE Dropped(p)]_vars

\* A candidate has been dropped on a full queue: the run context is live, no
\* goroutine is at the select, the queue is full and a canonical URL is in
\* processedURLs that was never inserted.
C12_Witness ==
    /\ Len(queue) = queueSize
    /\ ~queueClosed
    /\ ~ctxDone(1)
    /\ \A p \in Procs : pc[p] # "L209"
    /\ \E u \in processedURLs : inserted[u] = 0

(***************************************************************************)
(* Callbacks per dequeued URL.                                             *)
(***************************************************************************)
\* The workers that hold u between the receive of line 228 and the callback
\* of line 280 or 314.
BeforeCallback(u) ==
    {p \in Procs : rawURL[p] = u /\ pc[p] \in {"L232", "L243", "L257", "L280", "L314"}}

MonitorCancels(c) == mon[c] = "len" /\ mon'[c] = "exited" /\ cancelled'[c]

\* No worker of call c holds a dequeued URL and the seeding of call c is over.
Quiescent(c) ==
    /\ \A w \in WorkersOf(c) : pc[w] \in {"none", "L225", "exited"}
    /\ pc[Ctl(c)] \notin {"L155", "L187", "L198", "L209"}

\* C14: whenever the idle monitor cancels the run, every URL a worker has
\* taken from the queue has finished processing, the admission of its links
\* included, and the controller's seeding has finished.
C14_MonitorCancelsOnlyWhenIdle ==
    [][\A c \in Calls : MonitorCancels(c) => Quiescent(c)]_vars

\* This step is worker w taking an entry from the queue (line 228, ok true).
Dequeues(w) == pc[w] = "L225" /\ pc'[w] = "L232"

\* C15: once the run context of a call is cancelled, no worker of that call
\* takes another entry from the queue.
C15_NoDequeueAfterCancel ==
    [][\A c \in Calls : \A w \in WorkersOf(c) : Dequeues(w) => ~ctxDone(c)]_vars

(***************************************************************************)
(* The budget clamp of one enqueue call.                                   *)
(***************************************************************************)
Max0(n) == IF n > 0 THEN n ELSE 0

\* This step is goroutine p running lines 187-195 with no allowance left.
NoAllowance(p) ==
    /\ pc[p] = "L187"
    /\ pc'[p] # "L187"
    /\ maxURLs > 0
    /\ maxURLs - stats.processed <= 0

\* C16: with maxURLs > 0, the URLs one enqueue call has sent on the queue
\* never number more than max(0, maxURLs - processed), processed being the
\* counter as read at line 189; and a call that reads an allowance <= 0
\* returns 0 and changes neither processedURLs nor the queue.
C16_AdmissionWithinAllowance ==
    /\ [](maxURLs > 0 => \A p \in Procs : queued[p] <= Max0(allowedCount[p]))
    /\ [][\A p \in Procs :
             NoAllowance(p) =>
                 /\ queued'[p] = 0
                 /\ pc'[p] = IF IsCtl(p) THEN "defer_close" ELSE "L234"
                 /\ UNCHANGED << processedURLs, queue, queueClosed >>]_vars

\* A worker has returned from an enqueue call that was offered links and
\* read an allowance <= 0.
C16_Witness ==
    \E p \in Procs :
        /\ maxURLs > 0
        /\ pc[p] = "L234"
        /\ allowedCount[p] <= 0
        /\ queued[p] = 0
        /\ filterLinks(followBehavior, rawURL[p], links[p]) # << >>

(***************************************************************************)
(* processedURLs against the queue.                                        *)
(***************************************************************************)
\* C17: every canonical URL in processedURLs has been sent on the queue, or
\* is the candidate a goroutine holds at the select of lines 209-216.
C17_SeenImpliesInserted ==
    \A u \in processedURLs :
        \/ inserted[u] > 0
        \/ \E p \in Procs : pc[p] = "L209" /\ value[p] = u

(***************************************************************************)
(* Closing the queue.                                                      *)
(***************************************************************************)
\* C18: no goroutine is at the select of lines 209-216, about to attempt
\* its send, while the queue is closed, and no send on the closed queue has
\* happened (it panics).
C18_ClosedAfterLastInsertion ==
    /\ ~panicked
    /\ queueClosed => \A p \in Procs : pc[p] # "L209"

(***************************************************************************)
(* The Stats counters and the active-worker counter.                       *)
(***************************************************************************)
\* C19: no step lowers processed, succeeded or failed; in every state
\* succeeded + failed <= processed <= succeeded + failed + activeWorkers and
\* 0 <= activeWorkers <= workers, so processed = succeeded + failed whenever
\* activeWorkers is 0.
C19_CountersConsistent ==
    /\ [](/\ stats.succeeded + stats.failed <= stats.processed
          /\ stats.processed <= stats.succeeded + stats.failed + activeWorkers
          /\ 0 <= activeWorkers
          /\ activeWorkers <= workers)
    /\ [][/\ stats'.processed >= stats.processed
          /\ stats'.succeeded >= stats.succeeded
          /\ stats'.failed >= stats.failed]_vars

(***************************************************************************)
(* Follow behaviour.                                                       *)
(***************************************************************************)
\* The hosts of the seeds that normalize.
SeedHosts == {NormalizeURL(seeds[1][i]).host : i \in 1..Len(seeds[1])} \ {Err.host}

\* C20: under follow-none every URL sent on the queue was sent by the
\* seeding; under same-domain every URL sent on the queue by the admission
\* of a page's links has the host of that page, and every URL sent on the
\* queue has the host of a seed.
C20_FollowBehaviorHolds ==
    \A u \in CanonURLs :
        inserted[u] > 0 =>
            /\ followBehavior = "none" => via[u] = Seed
            /\ followBehavior = "same-domain" =>
                   /\ via[u] # Seed => via[u].host = u.host
                   /\ u.host \in SeedHosts

\* Under same-domain, a worker is through with the page x/c, whose link to
\* the host y was offered to filterLinks while allowance was left and has
\* not been sent.
C20_Witness ==
    /\ followBehavior = "same-domain"
    /\ \E p \in Procs :
          /\ rawURL[p] = Url("x", "c", "canon")
          /\ pc[p] = "L234"
          /\ allowedCount[p] > 0
          /\ \E i \in 1..Len(links[p]) : links[p][i].host = "y"
    /\ inserted[Url("y", "a", "canon")] = 0

====
